---- MODULE Spec2Model ----
(***************************************************************************)
(* Model of lib/dtrace_aggr2/index.js (class Dtrace): the supervisor of    *)
(* the dtrace child, the stdout line framer, the report decoder run at     *)
(* >END, the 60-slot ring of per-second windows and flush().               *)
(*                                                                         *)
(* JavaScript values are represented as follows.                           *)
(*   string            sequence of one-character strings                   *)
(*   number/undefined/null/NaN   a record [kind, val] (Num, NaN, ...)      *)
(*   object            sequence of [k, v] records kept in the order in     *)
(*                     which for-in enumerates the own properties          *)
(*   null object       the one-entry list JsNull                           *)
(***************************************************************************)
EXTENDS Integers, Sequences, FiniteSets, TLC

----------------------------------------------------------------------------
(* Bounds of the exploration *)

\* wall-clock second at which the instance is constructed
StartTime == 118
\* number of clock advances explored
MaxTicks == 3
\* number of >END lines processed in one run
MaxEnds == 3
\* longest in-progress report (self.lines) explored
MaxLines == 5
\* longest report whose lines are drawn freely, and the >END lines
\* processed and clock advances explored after it
MaxInput == 2
MaxReports == 2
MaxSeconds == 1
\* longest pending partial line (self.buffer) explored
MaxBuf == 6

----------------------------------------------------------------------------
(* JavaScript numbers, undefined and null *)

Num(n) == [kind |-> "number", val |-> n]
NaN == [kind |-> "nan", val |-> 0]
Undefined == [kind |-> "undefined", val |-> 0]
NullNum == [kind |-> "null", val |-> 0]

\* ToNumber: undefined -> NaN, null -> +0
ToNumber(v) ==
  IF v.kind = "undefined" THEN NaN
  ELSE IF v.kind = "null" THEN Num(0)
  ELSE v

\* a + b on numbers
JsAdd(a, b) ==
  LET x == ToNumber(a)
      y == ToNumber(b)
  IN IF x.kind = "nan" \/ y.kind = "nan" THEN NaN ELSE Num(x.val + y.val)

\* a - b on numbers
JsSub(a, b) ==
  LET x == ToNumber(a)
      y == ToNumber(b)
  IN IF x.kind = "nan" \/ y.kind = "nan" THEN NaN ELSE Num(x.val - y.val)

\* a < b, a <= b, a >= b : any comparison with NaN is false
JsLt(a, b) ==
  LET x == ToNumber(a)
      y == ToNumber(b)
  IN x.kind = "number" /\ y.kind = "number" /\ x.val < y.val

JsLe(a, b) ==
  LET x == ToNumber(a)
      y == ToNumber(b)
  IN x.kind = "number" /\ y.kind = "number" /\ x.val <= y.val

JsGe(a, b) ==
  LET x == ToNumber(a)
      y == ToNumber(b)
  IN x.kind = "number" /\ y.kind = "number" /\ x.val >= y.val

----------------------------------------------------------------------------
(* JavaScript strings *)

Digits == {"0", "1", "2", "3", "4", "5", "6", "7", "8", "9"}

\* characters matched by \s in a regular expression
Whitespace == {" ", "\t", "\n", "\r"}

DigitVal(c) ==
  CASE c = "0" -> 0 [] c = "1" -> 1 [] c = "2" -> 2 [] c = "3" -> 3
    [] c = "4" -> 4 [] c = "5" -> 5 [] c = "6" -> 6 [] c = "7" -> 7
    [] c = "8" -> 8 [] c = "9" -> 9

DigitChar(d) ==
  CASE d = 0 -> "0" [] d = 1 -> "1" [] d = 2 -> "2" [] d = 3 -> "3"
    [] d = 4 -> "4" [] d = 5 -> "5" [] d = 6 -> "6" [] d = 7 -> "7"
    [] d = 8 -> "8" [] d = 9 -> "9"

\* s.substr(0, n)
Substr0(s, n) == IF Len(s) <= n THEN s ELSE SubSeq(s, 1, n)

\* s.split(sep) for a one-character separator: always at least one segment
RECURSIVE SplitFrom(_, _, _, _)
SplitFrom(s, sep, i, cur) ==
  IF i > Len(s) THEN <<cur>>
  ELSE IF s[i] = sep THEN <<cur>> \o SplitFrom(s, sep, i + 1, <<>>)
  ELSE SplitFrom(s, sep, i + 1, Append(cur, s[i]))

Split(s, sep) == SplitFrom(s, sep, 1, <<>>)

\* value of the longest prefix of decimal digits of s starting at i
RECURSIVE DigitsValue(_, _, _)
DigitsValue(s, i, acc) ==
  IF i > Len(s) \/ s[i] \notin Digits THEN acc
  ELSE DigitsValue(s, i + 1, acc * 10 + DigitVal(s[i]))

\* parseInt(s, 10) of a string without leading white space
ParseInt10(s) ==
  LET signed == Len(s) >= 1 /\ s[1] \in {"-", "+"}
      first == IF signed THEN 2 ELSE 1
  IN IF first > Len(s) \/ s[first] \notin Digits THEN NaN
     ELSE IF signed /\ s[1] = "-" THEN Num(0 - DigitsValue(s, first, 0))
     ELSE Num(DigitsValue(s, first, 0))

\* decimal digits of a natural number
RECURSIVE NatToString(_)
NatToString(n) ==
  IF n < 10 THEN <<DigitChar(n)>>
  ELSE Append(NatToString(n \div 10), DigitChar(n % 10))

\* String(v) for a number, as a template literal renders it
NumberToString(v) ==
  IF v.kind = "nan" THEN <<"N", "a", "N">>
  ELSE IF v.kind = "undefined"
    THEN <<"u", "n", "d", "e", "f", "i", "n", "e", "d">>
  ELSE IF v.kind = "null" THEN <<"n", "u", "l", "l">>
  ELSE IF v.val < 0 THEN <<"-">> \o NatToString(0 - v.val)
  ELSE NatToString(v.val)

----------------------------------------------------------------------------
(* JavaScript objects *)

\* the value null where an object is expected
JsNull == <<[k |-> <<"null">>, v |-> <<>>]>>

\* a property key that is an array index (a canonical decimal below
\* 2^32 - 1): enumerated first, ascending. Exact for keys of up to nine
\* digits; the labels explored have at most two.
IsIndexKey(key) ==
  /\ Len(key) >= 1
  /\ Len(key) <= 9
  /\ \A i \in 1..Len(key) : key[i] \in Digits
  /\ (Len(key) = 1 \/ key[1] # "0")

\* {}.hasOwnProperty.call(obj, key)
HasOwnProperty(obj, key) == \E i \in 1..Len(obj) : obj[i].k = key

\* obj[key] of an own property
GetProp(obj, key) ==
  obj[CHOOSE i \in 1..Len(obj) : obj[i].k = key].v

\* place of a new key in the enumeration order: index keys ascending,
\* then the other keys in insertion order
InsertAt(obj, key) ==
  IF IsIndexKey(key)
  THEN LET later == {i \in 1..Len(obj) :
                       \/ ~IsIndexKey(obj[i].k)
                       \/ DigitsValue(obj[i].k, 1, 0) > DigitsValue(key, 1, 0)}
       IN IF later = {} THEN Len(obj) + 1
          ELSE CHOOSE i \in later : \A j \in later : i <= j
  ELSE Len(obj) + 1

\* obj[key] = val
SetProp(obj, key, val) ==
  IF HasOwnProperty(obj, key)
  THEN [i \in 1..Len(obj) |->
          IF obj[i].k = key THEN [k |-> key, v |-> val] ELSE obj[i]]
  ELSE LET p == InsertAt(obj, key)
       IN SubSeq(obj, 1, p - 1) \o <<[k |-> key, v |-> val]>>
            \o SubSeq(obj, p, Len(obj))

----------------------------------------------------------------------------
(* Protocol text *)

NL == "\n"
START == <<">", "S", "T", "A", "R", "T">>
END == <<">", "E", "N", "D">>

\* buffLines[i].replace(/[\s@]+/g, '')
StripLine(raw) == SelectSeq(raw, LAMBDA c : c \notin Whitespace \cup {"@"})

\* line.match(/^=(.+)$/) !== null ; the group is the text after "="
MatchesMetric(line) ==
  /\ Len(line) >= 2
  /\ line[1] = "="
  /\ \A i \in 2..Len(line) : line[i] \notin {"\n", "\r"}

\* line.match(/\d+|\d+/) !== null : the unescaped "|" is an alternation
\* of \d+ with \d+, so the pattern matches any line that holds a digit
MatchesSample(line) == \E i \in 1..Len(line) : line[i] \in Digits

----------------------------------------------------------------------------
(* State *)

VARIABLES
  dtrace,         \* this.dtrace: "null", or the state of the child spawned last
  children,       \* number of child processes spawned and not yet exited
  timer,          \* number of pending setTimeout restart callbacks
  buffer,         \* this.buffer: pending partial line
  lines,          \* this.lines: lines of the report in progress
  windows,        \* this.windows: 60 slots, each JsNull or a window object
  lastTimestamp,  \* this.lastTimestamp
  now,            \* Math.floor(Date.now() / 1000)
  ticks,          \* clock advances so far
  ends,           \* history: one record per >END processed
  ret,            \* the flush() call made since the last other event, and
                  \* what it returned
  twin            \* a second instance fed the same output of the child cut
                  \* into other chunks, with the output and how far each of
                  \* the two instances has read it

vars == <<dtrace, children, timer, buffer, lines, windows, lastTimestamp,
          now, ticks, ends, ret, twin>>

\* this.buffer = null and this.lines = null
NullBuffer == <<"null">>
NullLines == <<<<"null">>>>

\* no flush() call since the last other event
NoCall == [called |-> FALSE, numSamples |-> 0,
           aggregates |-> <<>>, histograms |-> <<>>]

\* no second instance
NoTwin == [stream |-> <<>>, pos |-> 0, twinPos |-> 0, handed |-> <<>>,
           twinHanded |-> <<>>,
           st |-> [buffer |-> <<>>, lines |-> <<>>,
                   windows |-> [i \in 0..59 |-> JsNull],
                   lastTimestamp |-> Undefined, ends |-> <<>>]]

\* seconds the clock advances by between two events
Steps == {1, 59}

\* numSamples arguments of flush()
FlushArgs == {2, 60, 70}

----------------------------------------------------------------------------
(* The >END branch of the stdout handler *)

\* self.windows[i] = null for every index i in cleared
ClearSlots(w, cleared) ==
  [i \in 0..59 |-> IF i \in cleared THEN JsNull ELSE w[i]]

\* a defect the code does not have: self.windows[j] = null, the index not
\* reduced modulo 60
ClearBetweenNoMod(w, from, to) == ClearSlots(w, from..(to - 1))

\* for (j = from; j < to; j++) self.windows[j % 60] = null
ClearBetween(w, from, to) == ClearSlots(w, {j % 60 : j \in from..(to - 1)})

\* a defect the code does not have: after 60 seconds or more the ring is
\* left as it is
ClearGapNoWipe(w, last, curr) ==
  IF JsGe(JsSub(Num(curr), last), Num(60))
  THEN w
  ELSE LET j0 == JsAdd(last, Num(1))
       IN IF j0.kind = "number" THEN ClearBetween(w, j0.val, curr) ELSE w

\* a defect the code does not have: a gap shorter than 60 seconds clears
\* nothing
ClearGapNoLoop(w, last, curr) ==
  IF JsGe(JsSub(Num(curr), last), Num(60))
  THEN [i \in 0..59 |-> JsNull]
  ELSE w

\* the gap handling of lines 153-161
ClearGap(w, last, curr) ==
  IF JsGe(JsSub(Num(curr), last), Num(60))
  THEN [i \in 0..59 |-> JsNull]
  ELSE LET j0 == JsAdd(last, Num(1))
       IN IF j0.kind = "number" THEN ClearBetween(w, j0.val, curr) ELSE w

\* lines 186-189: metrics[metricKey][latency] = count, creating
\* metrics[metricKey] when it is absent; m1 is metrics with that entry
StoreSample(m1, metricKey, latency, count) ==
  SetProp(m1, metricKey, SetProp(GetProp(m1, metricKey), latency, count))

\* lines 179-189 for a line that matched; aggSample = line.split('|')
DecodeSample(d, aggSample, count) ==
  IF count = Num(0)
  THEN d
  ELSE [d EXCEPT !.metrics =
          StoreSample(IF HasOwnProperty(d.metrics, d.metricKey)
                      THEN d.metrics
                      ELSE SetProp(d.metrics, d.metricKey, <<>>),
                      d.metricKey, aggSample[1], count)]

\* parseInt(aggSample[1], 10); a missing aggSample[1] is undefined
SampleCount(aggSample) ==
  IF Len(aggSample) >= 2 THEN ParseInt10(aggSample[2]) ELSE NaN

\* one iteration of the loop over self.lines (lines 163-191);
\* d = [metricKey, metrics]
DecodeLine(d, line) ==
  IF MatchesMetric(line)
  THEN [d EXCEPT !.metricKey = Tail(line)]
  ELSE IF d.metricKey = <<"null">>
  THEN d
  ELSE IF MatchesSample(line)
  THEN DecodeSample(d, Split(line, "|"), SampleCount(Split(line, "|")))
  ELSE d

RECURSIVE DecodeFrom(_, _, _)
DecodeFrom(ls, j, d) ==
  IF j > Len(ls) THEN d ELSE DecodeFrom(ls, j + 1, DecodeLine(d, ls[j]))

\* the metrics object built from self.lines
Decode(ls) == DecodeFrom(ls, 1, [metricKey |-> <<"null">>, metrics |-> <<>>]).metrics

\* a defect the code does not have: the window is stored and lastTimestamp
\* advanced whether or not the report has lines
WriteSlotAlways(st, currTimestamp, last1, w1, metrics) ==
  [buffer |-> st.buffer,
   lines |-> st.lines,
   windows |-> [w1 EXCEPT ![currTimestamp % 60] = metrics],
   lastTimestamp |-> Num(currTimestamp),
   ends |-> Append(st.ends,
              [ts |-> currTimestamp, lines |-> st.lines,
               metrics |-> metrics, before |-> st.lastTimestamp,
               after |-> Num(currTimestamp), slot |-> metrics])]

\* lines 193-199: the slot write; w1 is the ring after the gap handling,
\* last1 is lastTimestamp after line 152
WriteSlot(st, currTimestamp, last1, w1, metrics) ==
  [buffer |-> st.buffer,
   lines |-> st.lines,
   windows |-> [w1 EXCEPT ![currTimestamp % 60] =
                  IF Len(st.lines) > 0 THEN metrics ELSE JsNull],
   lastTimestamp |-> IF Len(st.lines) > 0 THEN Num(currTimestamp) ELSE last1,
   ends |-> Append(st.ends,
              [ts |-> currTimestamp, lines |-> st.lines,
               metrics |-> metrics, before |-> st.lastTimestamp,
               after |-> IF Len(st.lines) > 0
                         THEN Num(currTimestamp) ELSE last1,
               slot |-> IF Len(st.lines) > 0 THEN metrics ELSE JsNull])]

\* lines 153-199, given lastTimestamp after line 152
OnEndFrom(st, currTimestamp, last1) ==
  WriteSlot(st, currTimestamp, last1,
            ClearGap(st.windows, last1, currTimestamp), Decode(st.lines))

\* lines 145-200; st = [buffer, lines, windows, lastTimestamp, ends]
OnEnd(st, currTimestamp) ==
  OnEndFrom(st, currTimestamp,
            IF st.lastTimestamp = NullNum
            THEN Num(currTimestamp) ELSE st.lastTimestamp)

----------------------------------------------------------------------------
(* The stdout 'data' handler *)

\* the body of the loop over buffLines (lines 132-201)
OnLine(st, raw, currTimestamp) ==
  LET buffLine == StripLine(raw)
  IN IF Substr0(buffLine, 1) # <<">">>
     THEN [st EXCEPT !.lines = Append(st.lines, buffLine)]
     ELSE IF Substr0(buffLine, 6) = START
     THEN [st EXCEPT !.lines = <<>>]
     ELSE IF Substr0(buffLine, 4) = END
     THEN OnEnd(st, currTimestamp)
     ELSE st

RECURSIVE OnLines(_, _, _, _)
OnLines(st, buffLines, i, currTimestamp) ==
  IF i > Len(buffLines) THEN st
  ELSE OnLines(OnLine(st, buffLines[i], currTimestamp), buffLines, i + 1,
               currTimestamp)

\* lines 126-130: the segments handed to the loop; a trailing empty
\* segment is not popped
BuffLines(segs) ==
  IF segs[Len(segs)] = <<>> THEN segs ELSE SubSeq(segs, 1, Len(segs) - 1)

\* lines 126-130: the new pending buffer
Leftover(segs) ==
  IF segs[Len(segs)] = <<>> THEN <<>> ELSE segs[Len(segs)]

\* lines 126-201 on segs = self.buffer.split('\n')
OnSegments(st, segs, currTimestamp) ==
  [OnLines(st, BuffLines(segs), 1, currTimestamp)
     EXCEPT !.buffer = Leftover(segs)]

\* the whole handler; st = [buffer, lines, windows, lastTimestamp, ends]
OnData(st, chunk, currTimestamp) ==
  OnSegments(st, Split(st.buffer \o chunk, NL), currTimestamp)

----------------------------------------------------------------------------
(* flush() and its helpers *)

\* the inner loop of aggregateSamples (lines 33-38)
RECURSIVE AddSamples(_, _, _)
AddSamples(tgtSamples, srcSamples, i) ==
  IF i > Len(srcSamples) THEN tgtSamples
  ELSE LET sample == srcSamples[i].k
           t0 == IF HasOwnProperty(tgtSamples, sample)
                 THEN tgtSamples ELSE SetProp(tgtSamples, sample, Num(0))
       IN AddSamples(
            SetProp(t0, sample, JsAdd(GetProp(t0, sample), srcSamples[i].v)),
            srcSamples, i + 1)

\* the outer loop of aggregateSamples (lines 25-39)
RECURSIVE AddMetrics(_, _, _)
AddMetrics(tgt, src, i) ==
  IF i > Len(src) THEN tgt
  ELSE LET metric == src[i].k
           t0 == IF HasOwnProperty(tgt, metric)
                 THEN tgt ELSE SetProp(tgt, metric, <<>>)
       IN AddMetrics(
            SetProp(t0, metric, AddSamples(GetProp(t0, metric), src[i].v, 1)),
            src, i + 1)

\* a defect the code does not have: tgt[metric] = src[metric] shares the
\* stored distribution, which the += of line 37 then adds to itself
aggregateSamplesShared(tgt, src) ==
  IF src = JsNull THEN [tgt |-> tgt, src |-> src]
  ELSE LET doubled ==
             [i \in 1..Len(src) |->
                IF HasOwnProperty(tgt, src[i].k) THEN src[i]
                ELSE [k |-> src[i].k, v |-> AddSamples(src[i].v, src[i].v, 1)]]
           fresh == SelectSeq(doubled, LAMBDA e : ~HasOwnProperty(tgt, e.k))
           known == SelectSeq(src, LAMBDA e : HasOwnProperty(tgt, e.k))
       IN [tgt |-> AddMetrics(tgt, known, 1) \o fresh, src |-> doubled]

\* aggregateSamples(tgt, src): both objects as the call leaves them
aggregateSamples(tgt, src) ==
  IF src = JsNull THEN [tgt |-> tgt, src |-> src]
  ELSE [tgt |-> AddMetrics(tgt, src, 1), src |-> src]

\* `H[${key}]=${samples[key]}`
Bucket(key, count) ==
  <<"H", "[">> \o key \o <<"]", "=">> \o NumberToString(count)

\* makeHistogram(samples)
makeHistogram(samples) ==
  [i \in 1..Len(samples) |-> Bucket(samples[i].k, samples[i].v)]

\* a defect the code does not have: the loop runs over the 60 slots,
\* whatever the span and lastTimestamp are
VisitsWholeRing(w, startTimestamp, last) ==
  SelectSeq([n \in 1..60 |-> n - 1], LAMBDA i : w[i] # JsNull)

\* the seconds i of the loop of line 216 whose slot is occupied, in order;
\* for the others aggregateSamples returns at once (lines 21-23)
Visits(w, startTimestamp, last) ==
  IF ~JsLe(Num(startTimestamp), last) THEN <<>>
  ELSE SelectSeq([n \in 1..(ToNumber(last).val - startTimestamp + 1) |->
                    startTimestamp + n - 1],
                 LAMBDA i : w[i % 60] # JsNull)

\* the loop of lines 216-218 over those seconds; f = [aggregates, windows]
RECURSIVE FlushLoop(_, _, _)
FlushLoop(f, seconds, n) ==
  IF n > Len(seconds) THEN f
  ELSE LET idx == seconds[n] % 60
           r == aggregateSamples(f.aggregates, f.windows[idx])
       IN FlushLoop([aggregates |-> r.tgt,
                     windows |-> [f.windows EXCEPT ![idx] = r.src]],
                    seconds, n + 1)

\* flush(numSamples) at second currTimestamp: what it returns and the ring
\* as it leaves it
flush(w, last, currTimestamp, numSamples) ==
  LET startTimestamp == currTimestamp - numSamples
      f == FlushLoop([aggregates |-> <<>>, windows |-> w],
                     Visits(w, startTimestamp, last), 1)
  IN [aggregates |-> f.aggregates,
      histograms |->
        [i \in 1..Len(f.aggregates) |->
           [k |-> f.aggregates[i].k,
            v |-> [type |-> <<"n">>,
                   value |-> makeHistogram(f.aggregates[i].v)]]],
      windows |-> f.windows]

----------------------------------------------------------------------------
(* Events *)

\* the state the constructor leaves (lines 65-85); lastTimestamp is never
\* assigned there, so reading it gives undefined
Init ==
  /\ dtrace = "null"
  /\ children = 0
  /\ timer = 0
  /\ buffer = NullBuffer
  /\ lines = NullLines
  /\ windows = [i \in 0..59 |-> JsNull]
  /\ lastTimestamp = Undefined
  /\ now = StartTime
  /\ ticks = 0
  /\ ends = <<>>
  /\ ret = NoCall
  /\ twin = NoTwin

\* the body of start() (lines 104-106)
start ==
  /\ buffer' = <<>>
  /\ dtrace' = "live"
  /\ children' = children + 1
  /\ lines' = <<>>

\* the host calls start() once
Start ==
  /\ dtrace = "null"
  /\ start
  /\ ret' = NoCall
  /\ UNCHANGED <<timer, windows, lastTimestamp, now, ticks, ends, twin>>

\* a defect the code does not have: the exit handler logs and schedules
\* nothing
ExitGivesUp ==
  /\ children > 0
  /\ children' = children - 1
  /\ dtrace' = IF children = 1 THEN "exited" ELSE dtrace
  /\ timer' = timer
  /\ ret' = NoCall
  /\ UNCHANGED <<buffer, lines, windows, lastTimestamp, now, ticks, ends,
                 twin>>

\* the 'exit' event of a child (lines 108-113): a child that is running
\* exits, once, and its handler schedules start()
Exit ==
  /\ children > 0
  /\ children' = children - 1
  /\ dtrace' = IF children = 1 THEN "exited" ELSE dtrace
  /\ timer' = timer + 1
  /\ ret' = NoCall
  /\ UNCHANGED <<buffer, lines, windows, lastTimestamp, now, ticks, ends,
                 twin>>

\* a defect the code does not have: the callback is not consumed when it
\* runs (setInterval in place of setTimeout)
RestartKeepsTimer ==
  /\ timer > 0
  /\ timer' = timer
  /\ start
  /\ ret' = NoCall
  /\ UNCHANGED <<windows, lastTimestamp, now, ticks, ends, twin>>

\* a defect the code does not have: the restart allocates a new ring
RestartResetsRing ==
  /\ timer > 0
  /\ timer' = timer - 1
  /\ start
  /\ windows' = [i \in 0..59 |-> JsNull]
  /\ lastTimestamp' = Undefined
  /\ ret' = NoCall
  /\ UNCHANGED <<now, ticks, ends, twin>>

\* the setTimeout callback of lines 110-112
Restart ==
  /\ timer > 0
  /\ timer' = timer - 1
  /\ start
  /\ ret' = NoCall
  /\ UNCHANGED <<windows, lastTimestamp, now, ticks, ends, twin>>

\* a 'data' event of the child's stdout (lines 119-202)
Data(chunk) ==
  /\ dtrace # "null"
  /\ \E r \in {OnData([buffer |-> buffer, lines |-> lines,
                       windows |-> windows, lastTimestamp |-> lastTimestamp,
                       ends |-> ends], chunk, now)} :
        /\ Len(r.buffer) <= MaxBuf
        /\ Len(r.lines) <= MaxLines
        /\ Len(r.ends) <= MaxEnds
        /\ buffer' = r.buffer
        /\ lines' = r.lines
        /\ windows' = r.windows
        /\ lastTimestamp' = r.lastTimestamp
        /\ ends' = r.ends
  /\ ret' = NoCall
  /\ UNCHANGED <<dtrace, children, timer, now, ticks>>

\* the host calls flush(numSamples) (lines 210-230)
Flush(numSamples) ==
  /\ \E r \in {flush(windows, lastTimestamp, now, numSamples)} :
        /\ windows' = r.windows
        /\ ret' = [called |-> TRUE, numSamples |-> numSamples,
                   aggregates |-> r.aggregates, histograms |-> r.histograms]
  /\ UNCHANGED <<dtrace, children, timer, buffer, lines, lastTimestamp, now,
                 ticks, ends, twin>>

\* the wall clock advances
Tick(d) ==
  /\ ticks < MaxTicks
  /\ now' = now + d
  /\ ticks' = ticks + 1
  /\ ret' = NoCall
  /\ UNCHANGED <<dtrace, children, timer, buffer, lines, windows,
                 lastTimestamp, ends, twin>>

\* the lines the loop of line 132 goes through for one chunk, as line 133
\* normalizes them
Handed(buf, chunk) ==
  [i \in 1..Len(BuffLines(Split(buf \o chunk, NL))) |->
     StripLine(BuffLines(Split(buf \o chunk, NL))[i])]

\* the next n characters of the child's output reach this instance
Feed(n) ==
  /\ twin.pos + n <= Len(twin.stream)
  /\ Data(SubSeq(twin.stream, twin.pos + 1, twin.pos + n))
  /\ twin' = [twin EXCEPT
        !.pos = twin.pos + n,
        !.handed = twin.handed \o
           Handed(buffer, SubSeq(twin.stream, twin.pos + 1, twin.pos + n))]

\* the next n characters of the child's output reach the second instance
FeedTwin(n) ==
  /\ twin.twinPos + n <= Len(twin.stream)
  /\ twin' = [twin EXCEPT
        !.twinPos = twin.twinPos + n,
        !.twinHanded = twin.twinHanded \o
           Handed(twin.st.buffer,
                  SubSeq(twin.stream, twin.twinPos + 1, twin.twinPos + n)),
        !.st = OnData(twin.st,
                      SubSeq(twin.stream, twin.twinPos + 1, twin.twinPos + n),
                      now)]
  /\ UNCHANGED <<dtrace, children, timer, buffer, lines, windows,
                 lastTimestamp, now, ticks, ends, ret>>

----------------------------------------------------------------------------
(* Output of the child, as chunks of its stdout *)

ChunkEnd == END \o <<NL>>
ChunkEmpty == START \o <<NL>> \o END \o <<NL>>
ChunkRead == START \o <<NL, "=", "r", "e", "a", "d", NL, "1", "0", "|", "2", NL,
                        "2", "0", "|", "1", NL>> \o END \o <<NL>>
ChunkOne == START \o <<NL, "=", "r", "e", "a", "d", NL, "1", "0", "|", "1", NL>>
              \o END \o <<NL>>

\* whole reports with samples, one per chunk
RingChunks == {ChunkRead, ChunkOne}

\* normalized lines of a report: an empty line, a metric context, a
\* sample, a sample with a zero count, a sample with a negative count and
\* a number without "|"
LineMenu == {<<>>,
             <<"=", "r", "e", "a", "d">>,
             <<"1", "0", "|", "2">>,
             <<"5", "|", "0">>,
             <<"1", "0", "|", "-", "2">>,
             <<"1", "2">>}

\* the sequences of at most n lines of LineMenu
RECURSIVE Reports(_)
Reports(n) ==
  IF n = 0 THEN {<<>>}
  ELSE Reports(n - 1) \cup
         {Append(r, l) : r \in {x \in Reports(n - 1) : Len(x) = n - 1},
                         l \in LineMenu}

----------------------------------------------------------------------------
(* Specifications *)

\* whole reports, on a clock that advances up to and beyond a lap of the
\* ring. A whole report starts with >START and ends with a newline, so what
\* an exit and restart reset (self.buffer, self.lines) does not show in
\* what is recorded; exits and restarts are explored under SpecLines.
Next ==
  \/ Start
  \/ \E chunk \in RingChunks :
       Len(ends) < MaxEnds /\ Data(chunk) /\ UNCHANGED twin
  \/ \E numSamples \in FlushArgs : Flush(numSamples)
  \/ \E d \in Steps : Tick(d)

Spec == Init /\ [][Next]_vars

\* a report without lines and a report with a metric context and no sample
ChunkBare == START \o <<NL, "=", "r", "e", "a", "d", NL>> \o END \o <<NL>>
GapChunks == {ChunkEmpty, ChunkBare, ChunkRead}

\* numSamples arguments of flush() under SpecGaps
GapFlushArgs == {2}

\* reports with and without lines and samples, on a clock that advances up
\* to and beyond a lap of the ring
NextGaps ==
  \/ Start
  \/ \E chunk \in GapChunks :
       Len(ends) < MaxEnds /\ Data(chunk) /\ UNCHANGED twin
  \/ \E numSamples \in GapFlushArgs : Flush(numSamples)
  \/ \E d \in Steps : Tick(d)

SpecGaps == Init /\ [][NextGaps]_vars

\* the child is running and has sent the lines of a report, any of
\* Reports(MaxInput), since its >START
InitLines ==
  /\ dtrace = "live"
  /\ children = 1
  /\ timer = 0
  /\ buffer = <<>>
  /\ lines \in Reports(MaxInput)
  /\ windows = [i \in 0..59 |-> JsNull]
  /\ lastTimestamp = Undefined
  /\ now = StartTime
  /\ ticks = 0
  /\ ends = <<>>
  /\ ret = NoCall
  /\ twin = NoTwin

\* the report is ended, the child may exit and be restarted, a whole
\* report may follow, on a clock that advances by single seconds
NextLines ==
  \/ Exit
  \/ Restart
  \/ \E chunk \in {ChunkEnd, ChunkRead} :
       Len(ends) < MaxReports /\ Data(chunk) /\ UNCHANGED twin
  \/ Flush(2)
  \/ ticks < MaxSeconds /\ Tick(1)

SpecLines == InitLines /\ [][NextLines]_vars

\* the same events from the state the constructor leaves, start() called
\* once by the host
NextLive ==
  \/ Start
  \/ NextLines

\* with the timer of line 110 firing: a callback that setTimeout has
\* scheduled runs after its delay
SpecLive == Init /\ [][NextLive]_vars /\ WF_vars(Restart)

\* an empty report and a report of one sample, as the child writes them
StreamEmpty == ChunkEmpty
StreamSample == START \o <<NL, "=", "f", NL, "1", "|", "2", NL>> \o END \o <<NL>>

Streams == {StreamEmpty, StreamSample}

\* two instances that are running read the same output of the child in the
\* same second, each in chunks of any sizes
InitFramer ==
  /\ dtrace = "live"
  /\ children = 1
  /\ timer = 0
  /\ buffer = <<>>
  /\ lines = <<>>
  /\ windows = [i \in 0..59 |-> JsNull]
  /\ lastTimestamp = Undefined
  /\ now = StartTime
  /\ ticks = 0
  /\ ends = <<>>
  /\ ret = NoCall
  /\ twin \in {[NoTwin EXCEPT !.stream = s] : s \in Streams}

NextFramer ==
  \/ \E n \in 1..Len(twin.stream) : Feed(n)
  \/ \E n \in 1..Len(twin.stream) : FeedTwin(n)

SpecFramer == InitFramer /\ [][NextFramer]_vars

----------------------------------------------------------------------------
(* Vocabulary of the properties *)

\* the (metric, label) pairs of a window or of an aggregate
BucketsOf(obj) ==
  IF obj = JsNull THEN {}
  ELSE UNION {{<<obj[i].k, obj[i].v[j].k>> : j \in 1..Len(obj[i].v)} :
                i \in 1..Len(obj)}

\* the count of a bucket, 0 when the window does not have it
CountOf(obj, b) ==
  IF b \in BucketsOf(obj) THEN GetProp(GetProp(obj, b[1]), b[2]) ELSE Num(0)

\* every count of every bucket of a window or aggregate
CountsOf(obj) == {CountOf(obj, b) : b \in BucketsOf(obj)}

\* the >END processed last and the one before it
LastEnd == ends[Len(ends)]
PrevEnd == ends[Len(ends) - 1]

\* an >END that stored its window: a Record step
Recorded(e) == e.lines # <<>> /\ e.metrics # <<>>

\* the sum of a bucket over the windows decoded at the >ENDs from..Len(ends)
RECURSIVE SumFrom(_, _)
SumFrom(from, b) ==
  IF from > Len(ends) THEN Num(0)
  ELSE JsAdd(CountOf(ends[from].metrics, b), SumFrom(from + 1, b))

\* the window of the report =read, 10|2, 20|1 and the histogram of it
ReadLines == <<<<"=", "r", "e", "a", "d">>, <<"1", "0", "|", "2">>,
               <<"2", "0", "|", "1">>>>
ReadWindow ==
  <<[k |-> <<"r", "e", "a", "d">>,
     v |-> <<[k |-> <<"1", "0">>, v |-> Num(2)],
             [k |-> <<"2", "0">>, v |-> Num(1)]>>]>>
ReadHistograms ==
  <<[k |-> <<"r", "e", "a", "d">>,
     v |-> [type |-> <<"n">>,
            value |-> <<<<"H", "[", "1", "0", "]", "=", "2">>,
                        <<"H", "[", "2", "0", "]", "=", "1">>>>]]>>

----------------------------------------------------------------------------
(* Properties *)

\* C1: after Records at consecutive seconds, the last of them in the
\* current second, flush(N) returns for every bucket the sum over exactly
\* the last min(N, k) recorded windows.
ExactSumOfLastWindows ==
  (/\ ret.called
   /\ Len(ends) >= 1
   /\ \A i \in 1..Len(ends) : Recorded(ends[i])
   /\ \A i \in 2..Len(ends) : ends[i].ts = ends[i - 1].ts + 1
   /\ LastEnd.ts = now)
  => LET n == IF ret.numSamples < Len(ends) THEN ret.numSamples ELSE Len(ends)
         from == Len(ends) - n + 1
     IN /\ BucketsOf(ret.aggregates) =
             UNION {BucketsOf(ends[i].metrics) : i \in from..Len(ends)}
        /\ \A b \in BucketsOf(ret.aggregates) :
             CountOf(ret.aggregates, b) = SumFrom(from, b)

\* C2: once the report =read, 10|2, 20|1 has been processed at second T
\* and nothing else, slot T mod 60 holds { read: { 10: 2, 20: 1 } } and
\* flush(60) at any second T..T+60 returns for read exactly H[10]=2, H[20]=1.
EndToEndRead ==
  (Len(ends) = 1 /\ ends[1].lines = ReadLines)
  => /\ ends[1].slot = ReadWindow
     /\ (ret.called /\ ret.numSamples = 60
         /\ ends[1].ts <= now /\ now <= ends[1].ts + 60)
        => ret.histograms = ReadHistograms

\* C3: when two consecutive >ENDs both record and are 60 or more seconds
\* apart, every slot but that of the second is empty, and flush(70) in that
\* second has the buckets of the second window only, every count made of
\* that window's count alone (the 71 seconds of the span meet its slot
\* twice): nothing of the first window is in the result.
GapClearsRing ==
  (/\ Len(ends) >= 2
   /\ Recorded(PrevEnd) /\ Recorded(LastEnd)
   /\ LastEnd.ts - PrevEnd.ts >= 60
   /\ now = LastEnd.ts)
  => /\ \A i \in 0..59 : i # LastEnd.ts % 60 => windows[i] = JsNull
     /\ (ret.called /\ ret.numSamples = 70)
        => /\ BucketsOf(ret.aggregates) = BucketsOf(LastEnd.metrics)
           /\ \A b \in BucketsOf(ret.aggregates) :
                CountOf(ret.aggregates, b) =
                  JsAdd(CountOf(LastEnd.metrics, b), CountOf(LastEnd.metrics, b))

\* C3 witness: flush(70) right after a report recorded 60 or more seconds
\* after a different one
GapFlushed ==
  /\ Len(ends) >= 2
  /\ Recorded(PrevEnd) /\ Recorded(LastEnd)
  /\ LastEnd.ts - PrevEnd.ts >= 60
  /\ now = LastEnd.ts
  /\ PrevEnd.metrics # LastEnd.metrics
  /\ ret.called /\ ret.numSamples = 70

\* C4: when two consecutive >ENDs both record and are g seconds apart,
\* 1 < g < 60, the slots of the seconds between them are empty, and
\* flush(g) in that second returns the bucket-wise sum of the two windows.
SmallGapClears ==
  (/\ Len(ends) >= 2
   /\ PrevEnd.lines # <<>> /\ LastEnd.lines # <<>>
   /\ LastEnd.ts - PrevEnd.ts > 1
   /\ LastEnd.ts - PrevEnd.ts < 60
   /\ now = LastEnd.ts)
  => /\ \A sec \in (PrevEnd.ts + 1)..(LastEnd.ts - 1) :
          windows[sec % 60] = JsNull
     /\ (ret.called /\ ret.numSamples = LastEnd.ts - PrevEnd.ts)
        => /\ BucketsOf(ret.aggregates) =
                BucketsOf(PrevEnd.metrics) \cup BucketsOf(LastEnd.metrics)
           /\ \A b \in BucketsOf(ret.aggregates) :
                CountOf(ret.aggregates, b) =
                  JsAdd(CountOf(PrevEnd.metrics, b), CountOf(LastEnd.metrics, b))

\* C4 witness: flush(g) right after the second of two such reports, a
\* second between them falling on the slot of a window recorded a lap
\* earlier
SmallGapOverOldLap ==
  /\ Len(ends) >= 3
  /\ Recorded(ends[Len(ends) - 2]) /\ Recorded(PrevEnd) /\ Recorded(LastEnd)
  /\ PrevEnd.metrics # LastEnd.metrics
  /\ LastEnd.ts - PrevEnd.ts > 1
  /\ LastEnd.ts - PrevEnd.ts < 60
  /\ now = LastEnd.ts
  /\ ends[Len(ends) - 2].ts < PrevEnd.ts
  /\ \E sec \in (PrevEnd.ts + 1)..(LastEnd.ts - 1) :
       sec % 60 = ends[Len(ends) - 2].ts % 60
  /\ ret.called /\ ret.numSamples = LastEnd.ts - PrevEnd.ts

ChunkingIndependent ==
  (twin.pos = Len(twin.stream) /\ twin.twinPos = Len(twin.stream))
  => /\ twin.handed = twin.twinHanded
     /\ windows = twin.st.windows
     /\ lastTimestamp = twin.st.lastTimestamp

\* C7: a flush() leaves the 60 slots, with all they hold, and lastTimestamp
\* as they were.
FlushReadsOnly ==
  [][(ret'.called /\ \E numSamples \in FlushArgs : Flush(numSamples))
     => (windows' = windows /\ lastTimestamp' = lastTimestamp)]_vars

\* C7 witness: a flush() has merged at least one stored window
FlushMergedAWindow == ret.called /\ ret.aggregates # <<>>

\* C8: a flush() that follows a flush() with the same argument, with no
\* other event between them, returns what that one returned.
FlushIdempotent ==
  [][\A numSamples \in FlushArgs :
       (ret.called /\ ret.numSamples = numSamples /\ Flush(numSamples))
       => ret'.histograms = ret.histograms]_vars

\* C8 witness: a flush() has just returned the sum of two windows; the
\* same call can be made again here
FlushOfTwoWindows ==
  /\ ret.called
  /\ Len(ends) >= 2
  /\ \E b \in BucketsOf(ret.aggregates) :
       CountOf(ret.aggregates, b) =
         JsAdd(CountOf(PrevEnd.metrics, b), CountOf(LastEnd.metrics, b))
  /\ Recorded(PrevEnd) /\ Recorded(LastEnd)
  /\ PrevEnd.ts < LastEnd.ts

\* the line 5|0
ZeroLine == <<"5", "|", "0">>

\* C9: no stored window and no flush() result has a bucket whose count is
\* 0, and a line 5|0 changes nothing in the window its report decodes to.
NoZeroCount ==
  /\ \A i \in 0..59 : Num(0) \notin CountsOf(windows[i])
  /\ ret.called => Num(0) \notin CountsOf(ret.aggregates)
  /\ \A i \in 1..Len(ends) :
       ends[i].metrics =
         Decode(SelectSeq(ends[i].lines, LAMBDA l : l # ZeroLine))

\* <label>|<decimal count>
IsSampleLine(line) ==
  /\ Len(Split(line, "|")) = 2
  /\ Split(line, "|")[1] # <<>>
  /\ Split(line, "|")[2] # <<>>
  /\ \A i \in 1..Len(Split(line, "|")[2]) : Split(line, "|")[2][i] \in Digits

\* =<name> or <label>|<decimal count>
WellFormedLine(line) == MatchesMetric(line) \/ IsSampleLine(line)

\* C10: every window is what its report decodes to without its malformed
\* lines, and every count stored in the ring is a positive integer.
MalformedLinesDiscarded ==
  /\ \A i \in 1..Len(ends) :
       ends[i].metrics = Decode(SelectSeq(ends[i].lines, WellFormedLine))
  /\ \A i \in 0..59 : \A c \in CountsOf(windows[i]) :
       c.kind = "number" /\ c.val > 0

\* C11: whenever the child has exited, a child is spawned again later,
\* and while a child that exited has not been replaced the callback that
\* will replace it is pending.
RestartFollowsExit ==
  /\ (dtrace = "exited") ~> (dtrace = "live")
  /\ [](dtrace = "exited" => timer > 0)

\* C11 witness: the child spawned by a restart (self.lines is empty after
\* an >END only once start() has run again) has exited in its turn
ExitedAgain ==
  /\ dtrace = "exited"
  /\ timer > 0
  /\ ends # <<>>
  /\ lines = <<>>

\* C12: the exit of the child and the restart leave the 60 slots and
\* lastTimestamp as they were, so that flush() returns after them what it
\* returned before; the restart empties self.buffer and self.lines.
ChildFailureInvisible ==
  [][/\ (Exit \/ Restart)
        => /\ windows' = windows
           /\ lastTimestamp' = lastTimestamp
           /\ \A numSamples \in FlushArgs :
                flush(windows', lastTimestamp', now', numSamples).histograms
                  = flush(windows, lastTimestamp, now, numSamples).histograms
     /\ Restart => buffer' = <<>> /\ lines' = <<>>]_vars

\* C12 witness: a flush() that returns a recorded window after the child
\* that reported it has exited and been replaced
RestartedThenFlushed ==
  /\ dtrace = "live"
  /\ ends # <<>>
  /\ lines = <<>>
  /\ ret.called
  /\ ret.histograms # <<>>

\* the seconds now - numSamples .. lastTimestamp of the last flush()
FlushedSeconds ==
  IF lastTimestamp.kind = "number"
  THEN (now - ret.numSamples)..lastTimestamp.val ELSE {}

\* C13: flush() returns an empty mapping when no second of its span has
\* recorded data: while lastTimestamp is unset, while no >END has decoded
\* a sample, and when the span begins after lastTimestamp.
FlushOfNothing ==
  ret.called
  => /\ lastTimestamp = Undefined => ret.histograms = <<>>
     /\ (\A i \in 1..Len(ends) : ends[i].metrics = <<>>)
        => ret.histograms = <<>>
     /\ FlushedSeconds = {} => ret.histograms = <<>>
     /\ (\A sec \in FlushedSeconds : BucketsOf(windows[sec % 60]) = {})
        => ret.histograms = <<>>

\* C13 witness: a flush() whose span begins after lastTimestamp while the
\* ring holds a window with samples
FlushPastLastRecord ==
  /\ ret.called
  /\ lastTimestamp.kind = "number"
  /\ lastTimestamp.val < now - ret.numSamples
  /\ \E i \in 0..59 : BucketsOf(windows[i]) # {}
  /\ ret.histograms = <<>>

\* the >END processed last among those of a second that falls on slot i
LastEndAt(i) ==
  IF \E k \in 1..Len(ends) : ends[k].ts % 60 = i
  THEN CHOOSE k \in 1..Len(ends) :
         /\ ends[k].ts % 60 = i
         /\ \A j \in (k + 1)..Len(ends) : ends[j].ts % 60 # i
  ELSE 0

\* C14: every occupied slot i holds the window stored by the last >END of
\* a second s with s mod 60 = i, and lastTimestamp - 60 < s <= lastTimestamp.
NoStaleLap ==
  \A i \in 0..59 :
    windows[i] # JsNull
    => /\ lastTimestamp.kind = "number"
       /\ LastEndAt(i) # 0
       /\ ends[LastEndAt(i)].slot = windows[i]
       /\ lastTimestamp.val - 60 < ends[LastEndAt(i)].ts
       /\ ends[LastEndAt(i)].ts <= lastTimestamp.val

\* C14 witness: a window was recorded, a report without lines came 59
\* seconds or more later, a window was recorded after that in another
\* slot, and the slot of the first window is empty
OldLapGone ==
  /\ Len(ends) >= 3
  /\ \E j \in 1..Len(ends) : \E k \in (j + 1)..(Len(ends) - 1) :
       /\ Recorded(ends[j])
       /\ ends[k].lines = <<>>
       /\ ends[k].ts - ends[j].ts >= 59
       /\ LastEnd.ts > ends[k].ts
       /\ LastEnd.ts % 60 # ends[j].ts % 60
       /\ windows[ends[j].ts % 60] = JsNull
  /\ Recorded(LastEnd)
  /\ windows[LastEnd.ts % 60] = LastEnd.slot

\* C15: once the instance has read the whole of >START, >END, in chunks of
\* any sizes, the slot of the current second is empty and lastTimestamp is
\* what it was before, unset.
EmptyReportRecordsNothing ==
  (twin.stream = StreamEmpty /\ twin.pos = Len(twin.stream))
  => /\ windows[now % 60] = JsNull
     /\ lastTimestamp = Undefined

\* what the instance has read of the output of the child, split at newlines
ReadSegments == Split(SubSeq(twin.stream, 1, twin.pos), NL)

\* C16: the lines handed over so far are the newline-terminated segments
\* of what has been read, one per newline and in order, and self.buffer is
\* the text after the last newline.
LineAccounting ==
  /\ twin.handed =
       [i \in 1..(Len(ReadSegments) - 1) |-> StripLine(ReadSegments[i])]
  /\ buffer = ReadSegments[Len(ReadSegments)]

\* C17: the window decoded at an >END that follows another >END has the
\* samples of the report received between the two, =read, 10|2, 20|1 after
\* its >START, and no sample when no report came between them.
DecodedOnce ==
  \A i \in 2..Len(ends) :
    ends[i].metrics = IF ends[i].lines = ReadLines THEN ReadWindow ELSE <<>>

\* the indexes of the occupied slots, in order
Occupied == SelectSeq([n \in 1..60 |-> n - 1], LAMBDA i : windows[i] # JsNull)

\* the sum of a bucket over the windows stored in the slots slots[n..]
RECURSIVE SumSlots(_, _, _)
SumSlots(slots, n, b) ==
  IF n > Len(slots) THEN Num(0)
  ELSE JsAdd(CountOf(windows[slots[n]], b), SumSlots(slots, n + 1, b))

\* C18: no count that flush() returns is greater than the sum of its
\* bucket over the windows stored in the ring.
NoDoubleCounting ==
  ret.called
  => \A b \in BucketsOf(ret.aggregates) :
       JsLe(CountOf(ret.aggregates, b), SumSlots(Occupied, 1, b))

\* C19: once start() has been called there is one child running and no
\* restart pending, or no child and one restart pending; this.dtrace is
\* the child running when there is one.
OneChildAtATime ==
  /\ children <= 1
  /\ timer <= 1
  /\ timer > 0 => children = 0
  /\ dtrace # "null" => children + timer = 1
  /\ children = 1 <=> dtrace = "live"

\* C19 witness: the child spawned by a restart is running (self.lines and
\* self.buffer are empty after an >END only once start() has run again)
RespawnedOnce ==
  /\ children = 1
  /\ timer = 0
  /\ ends # <<>>
  /\ lines = <<>>
  /\ buffer = <<>>

\* C20: once an >END has been processed lastTimestamp is a second, that of
\* the first >END or a later one, and an >END changes it only by storing
\* the window of a report that has lines.
LastTimestampInitialised ==
  /\ ends # <<>> => lastTimestamp.kind = "number"
  /\ \A i \in 1..Len(ends) :
       /\ ends[i].after.kind = "number"
       /\ ends[i].after.val <= ends[i].ts
       /\ (i > 1 /\ ends[i].after # ends[i].before)
          => (ends[i].lines # <<>> /\ ends[i].after = Num(ends[i].ts))

====
